---- MODULE Spec2Model ----
(***************************************************************************)
(* Model of src/src/main.rs: a Dijkstra solver over the line 0 .. n-1 with *)
(* one extra directed unit edge ("shortcut") per node.                     *)
(*                                                                         *)
(* The solver owns `distances` (Vec<usize>) and `heap` (BinaryHeap<State>, *)
(* a max-heap under `impl Ord for State`).  The heap is modelled as a bag  *)
(* of State records: BinaryHeap::pop returns the greatest element under    *)
(* Ord, and Ord is total, so the bag determines what is popped.            *)
(***************************************************************************)
EXTENDS Integers, Sequences, FiniteSets, Bags, TLC

\* Largest number of nodes of a driver run (Spec).
MaxN == 5

\* Largest number of nodes of a driver run with open tie order (SpecTie).
MaxTieN == 5

\* Largest number of nodes of a driver run with deferred pushes (FairSpecDefer).
MaxDeferN == 3

\* Largest number of nodes of a driver run checked for termination (FairSpec).
MaxLiveN == 4

\* Largest number of nodes of a solver driven by an arbitrary caller (SpecFree).
MaxFreeN == 3

\* Largest finite cost an arbitrary caller proposes (SpecFree).
MaxCost == 2

\* usize::MAX, the "infinite" distance of LinearDijkstra::new.  The model
\* keeps it as the largest integer TLC represents (2^31 - 1), so that an
\* overflowing `cost + 1` is an evaluation error instead of a silent wrap.
UsizeMax == 2147483647

VARIABLES
    shortcuts,   \* main: the 0-indexed shortcut vector (a function on 0..n-1)
    distances,   \* LinearDijkstra.distances (a function on 0..n-1)
    heap,        \* LinearDijkstra.heap (a bag of State records)
    pc,          \* position of main: "pop", "push" or "done"; of a caller of
                 \* the solver: "new", "caller" or "panicked"
    ret,         \* value returned by the last pop(): None or a State
    extracted,   \* history: the candidates heap.pop() gave to the last pop(), in order
    returned,    \* history: every State returned by pop() to main, in order
    drained,     \* history: some pop() has returned None
    revived,     \* history: after that, some push was accepted (cost < distances[position])
    pending,     \* bag of returned States whose shortcut push is still to be made
    size,        \* the argument n of LinearDijkstra::new
    panic        \* "none", or the message of the panic that ended the program

vars == <<shortcuts, distances, heap, pc, ret, extracted, returned,
          drained, revived, pending, size, panic>>

\* struct State { cost, position }
State(c, p) == [cost |-> c, position |-> p]

\* Option::None
None == [none |-> TRUE]

\* impl Ord for State with the position order flipped as well.
cmpFlipBoth(self, other) ==
    IF other.cost < self.cost THEN "Less"
    ELSE IF other.cost > self.cost THEN "Greater"
    ELSE IF other.position < self.position THEN "Less"
    ELSE IF other.position > self.position THEN "Greater"
    ELSE "Equal"

\* impl Ord for State without the flip of the cost order (a max-heap on cost).
cmpNoFlip(self, other) ==
    IF self.cost < other.cost THEN "Less"
    ELSE IF self.cost > other.cost THEN "Greater"
    ELSE IF self.position < other.position THEN "Less"
    ELSE IF self.position > other.position THEN "Greater"
    ELSE "Equal"

\* impl Ord for State: other.cost.cmp(&self.cost).then_with(|| self.position.cmp(&other.position))
cmp(self, other) ==
    IF other.cost < self.cost THEN "Less"
    ELSE IF other.cost > self.cost THEN "Greater"
    ELSE IF self.position < other.position THEN "Less"
    ELSE IF self.position > other.position THEN "Greater"
    ELSE "Equal"

\* BinaryHeap::pop: the greatest element of the heap under Ord.
HeapGreatest(h) ==
    CHOOSE s \in BagToSet(h) : \A t \in BagToSet(h) : cmp(s, t) # "Less"

\* distances.len()
DLen(d) == Cardinality(DOMAIN d)

\* LinearDijkstra::new without `distances[0] = 0`.
newNoStart(n) ==
    [distances |-> [i \in 0..(n - 1) |-> UsizeMax],
     heap      |-> SetToBag({State(0, 0)})]

\* LinearDijkstra::new(n), n >= 1
new(n) ==
    [distances |-> [i \in 0..(n - 1) |-> IF i = 0 THEN 0 ELSE UsizeMax],
     heap      |-> SetToBag({State(0, 0)})]

\* LinearDijkstra::new with the write `distances[0] = 0` not bounds-checked.
constructUnchecked(n) ==
    [panic |-> "none", distances |-> new(n).distances, heap |-> new(n).heap]

\* LinearDijkstra::new(n) for any n: `distances[0] = 0` (line 63) indexes a
\* Vec of length n, which panics when 0 is not below n; the unwinding drops
\* the local heap and no LinearDijkstra is returned.
construct(n) ==
    IF 0 < n
    THEN [panic |-> "none", distances |-> new(n).distances, heap |-> new(n).heap]
    ELSE [panic |-> "index out of bounds", distances |-> << >>, heap |-> EmptyBag]

\* LinearDijkstra::push with `!=` in place of `<`.
pushNotEqual(d, h, state) ==
    IF state.cost # d[state.position]
    THEN [distances |-> [d EXCEPT ![state.position] = state.cost],
          heap      |-> h (+) SetToBag({state})]
    ELSE [distances |-> d, heap |-> h]

\* LinearDijkstra::push with `<=` in place of `<`.
pushLessOrEqual(d, h, state) ==
    IF state.cost <= d[state.position]
    THEN [distances |-> [d EXCEPT ![state.position] = state.cost],
          heap      |-> h (+) SetToBag({state})]
    ELSE [distances |-> d, heap |-> h]

\* LinearDijkstra::push where the candidate is queued whether or not it
\* improves the table.
pushAlwaysQueued(d, h, state) ==
    IF state.cost < d[state.position]
    THEN [distances |-> [d EXCEPT ![state.position] = state.cost],
          heap      |-> h (+) SetToBag({state})]
    ELSE [distances |-> d, heap |-> h (+) SetToBag({state})]

\* LinearDijkstra::push
push(d, h, state) ==
    IF state.cost < d[state.position]
    THEN [distances |-> [d EXCEPT ![state.position] = state.cost],
          heap      |-> h (+) SetToBag({state})]
    ELSE [distances |-> d, heap |-> h]

\* Lines 95-111 of pop without the backward move of lines 104-109.
visitNoBackward(d, h1, s) ==
    LET fwd == IF s.position + 1 < DLen(d)
               THEN push(d, h1, State(s.cost + 1, s.position + 1))
               ELSE [distances |-> d, heap |-> h1]
    IN  [ret |-> s, distances |-> fwd.distances, heap |-> fwd.heap]

\* Lines 95-111 of pop where the backward push works on the queue as it was
\* before the forward push: the forward neighbour is written to the table
\* but its queue entry is lost.
visitForwardNotQueued(d, h1, s) ==
    LET fwd == IF s.position + 1 < DLen(d)
               THEN push(d, h1, State(s.cost + 1, s.position + 1))
               ELSE [distances |-> d, heap |-> h1]
        bwd == IF s.position > 0
               THEN push(fwd.distances, h1, State(s.cost + 1, s.position - 1))
               ELSE fwd
    IN  [ret |-> s, distances |-> bwd.distances, heap |-> bwd.heap]

\* LinearDijkstra::pop, lines 95-111: the body of the loop for a candidate
\* `s` that is not stale, `h1` being the heap after heap.pop().
visit(d, h1, s) ==
    LET fwd == IF s.position + 1 < DLen(d)
               THEN push(d, h1, State(s.cost + 1, s.position + 1))
               ELSE [distances |-> d, heap |-> h1]
        bwd == IF s.position > 0
               THEN push(fwd.distances, fwd.heap, State(s.cost + 1, s.position - 1))
               ELSE fwd
    IN  [ret |-> s, distances |-> bwd.distances, heap |-> bwd.heap]

\* LinearDijkstra::pop over a queue ordered by position alone (smallest
\* position first, cost ignored) and without the staleness test.
popLoopByPosition(d, h, ext) ==
    IF h = EmptyBag
    THEN [ret |-> None, distances |-> d, heap |-> h, extracted |-> ext]
    ELSE LET s  == CHOOSE x \in BagToSet(h) :
                       \A t \in BagToSet(h) :
                           \/ x.position < t.position
                           \/ x.position = t.position /\ x.cost >= t.cost
             h1 == h (-) SetToBag({s})
             v  == visit(d, h1, s)
         IN  [ret |-> v.ret, distances |-> v.distances,
              heap |-> v.heap, extracted |-> Append(ext, s)]

\* LinearDijkstra::pop without the staleness test of lines 91-93.
popLoopNoStaleTest(d, h, ext) ==
    IF h = EmptyBag
    THEN [ret |-> None, distances |-> d, heap |-> h, extracted |-> ext]
    ELSE LET s  == HeapGreatest(h)
             h1 == h (-) SetToBag({s})
             v  == visit(d, h1, s)
         IN  [ret |-> v.ret, distances |-> v.distances,
              heap |-> v.heap, extracted |-> Append(ext, s)]

\* LinearDijkstra::pop: the whole `while let` loop.  `ext` accumulates the
\* candidates taken from the heap by this call.
RECURSIVE popLoop(_, _, _)
popLoop(d, h, ext) ==
    IF h = EmptyBag
    THEN [ret |-> None, distances |-> d, heap |-> h, extracted |-> ext]
    ELSE LET s  == HeapGreatest(h)
             h1 == h (-) SetToBag({s})
             e1 == Append(ext, s)
         IN  IF s.cost > d[s.position]
             THEN popLoop(d, h1, e1)
             ELSE LET v == visit(d, h1, s)
                  IN  [ret |-> v.ret, distances |-> v.distances,
                       heap |-> v.heap, extracted |-> e1]

pop(d, h) == popLoop(d, h, << >>)

\* main, lines 134-137, with `cost` in place of `cost + 1`.
ShortcutCandidateNoStep(sc, s) == State(s.cost, sc[s.position])

\* main, lines 134-137, with `position` in place of `shortcuts[position]`.
ShortcutCandidateSelf(sc, s) == State(s.cost + 1, s.position)

\* main, lines 134-137: the candidate pushed for a State returned by pop.
ShortcutCandidate(sc, s) == State(s.cost + 1, sc[s.position])

(***************************************************************************)
(* main: the driver loop.                                                  *)
(***************************************************************************)

\* main, lines 121-132: n in 1..maxn and n raw 1-indexed shortcuts in 1..n
\* have been read, 1 subtracted from each, and the solver constructed.
InitN(maxn) ==
    \E n \in 1..maxn :
        \E raw \in [0..(n - 1) -> 1..n] :
            /\ shortcuts = [i \in 0..(n - 1) |-> raw[i] - 1]
            /\ distances = new(n).distances
            /\ heap = new(n).heap
            /\ pc = "pop"
            /\ ret = None
            /\ extracted = << >>
            /\ returned = << >>
            /\ drained = FALSE
            /\ revived = FALSE
            /\ pending = EmptyBag
            /\ size = n
            /\ panic = "none"

Init == InitN(MaxN)

\* main, line 133, as a loop that does not leave when pop() returns None.
MainPopNoExit ==
    /\ pc = "pop"
    /\ LET r == pop(distances, heap)
       IN  /\ distances' = r.distances
           /\ heap' = r.heap
           /\ ret' = r.ret
           /\ extracted' = r.extracted
           /\ IF r.ret = None
              THEN pc' = "pop" /\ returned' = returned /\ drained' = TRUE
              ELSE pc' = "push" /\ returned' = Append(returned, r.ret)
                   /\ drained' = drained
    /\ UNCHANGED <<size, panic, shortcuts, revived, pending>>

\* main, line 133: `while let Some(State { cost, position }) = solver.pop()`
MainPop ==
    /\ pc = "pop"
    /\ LET r == pop(distances, heap)
       IN  /\ distances' = r.distances
           /\ heap' = r.heap
           /\ ret' = r.ret
           /\ extracted' = r.extracted
           /\ IF r.ret = None
              THEN pc' = "done" /\ returned' = returned /\ drained' = TRUE
              ELSE pc' = "push" /\ returned' = Append(returned, r.ret)
                   /\ drained' = drained
    /\ UNCHANGED <<size, panic, shortcuts, revived, pending>>

\* main, lines 134-137: solver.push(State { cost: cost + 1, position: shortcuts[position] })
MainPush ==
    /\ pc = "push"
    /\ LET r == push(distances, heap, ShortcutCandidate(shortcuts, ret))
       IN  /\ distances' = r.distances
           /\ heap' = r.heap
    /\ pc' = "pop"
    /\ UNCHANGED <<size, panic, shortcuts, ret, extracted, returned, drained, revived, pending>>

Next == MainPop \/ MainPush

Spec == Init /\ [][Next]_vars

\* main is a sequential program: whenever it can take a step, it does.
InitLive == InitN(MaxLiveN)

FairSpec == InitLive /\ [][Next]_vars /\ WF_vars(Next)

(***************************************************************************)
(* The solver driven by an arbitrary caller: any sequence of push and pop  *)
(* calls with in-range candidates (position < n, any cost).                *)
(***************************************************************************)

\* costs a caller may propose: small ones and usize::MAX
Costs == 0..MaxCost \cup {UsizeMax}

InitFree ==
    \E n \in 1..MaxFreeN :
        /\ shortcuts = << >>
        /\ distances = new(n).distances
        /\ heap = new(n).heap
        /\ pc = "caller"
        /\ ret = None
        /\ extracted = << >>
        /\ returned = << >>
        /\ drained = FALSE
        /\ revived = FALSE
        /\ pending = EmptyBag
        /\ size = n
        /\ panic = "none"

\* the call push(State { cost: c, position: p }) by the caller
CallPushOf(c, p) ==
    /\ LET r == push(distances, heap, State(c, p))
       IN  /\ distances' = r.distances
           /\ heap' = r.heap
    /\ revived' = (revived \/ (drained /\ c < distances[p]))
    /\ UNCHANGED <<size, panic, shortcuts, pc, ret, extracted, returned, drained, pending>>

\* a call of LinearDijkstra::push by the caller
CallPush == \E c \in Costs, p \in DOMAIN distances : CallPushOf(c, p)

\* a call of LinearDijkstra::pop by the caller
CallPop ==
    /\ LET r == pop(distances, heap)
       IN  /\ distances' = r.distances
           /\ heap' = r.heap
           /\ ret' = r.ret
           /\ extracted' = r.extracted
           /\ drained' = (drained \/ r.ret = None)
    /\ UNCHANGED <<size, panic, shortcuts, pc, returned, revived, pending>>

NextFree == CallPush \/ CallPop

SpecFree == InitFree /\ [][NextFree]_vars

(***************************************************************************)
(* A caller that constructs the solver for any n >= 0 and then makes any   *)
(* sequence of push and pop calls.                                         *)
(***************************************************************************)

InitCtor ==
    \E n \in 0..MaxFreeN :
        /\ size = n
        /\ panic = "none"
        /\ pc = "new"
        /\ shortcuts = << >>
        /\ distances = << >>
        /\ heap = EmptyBag
        /\ ret = None
        /\ extracted = << >>
        /\ returned = << >>
        /\ drained = FALSE
        /\ revived = FALSE
        /\ pending = EmptyBag

\* the call LinearDijkstra::new(size)
Construct ==
    /\ pc = "new"
    /\ LET r == construct(size)
       IN  /\ distances' = r.distances
           /\ heap' = r.heap
           /\ panic' = r.panic
           /\ pc' = IF r.panic = "none" THEN "caller" ELSE "panicked"
    /\ UNCHANGED <<size, shortcuts, ret, extracted, returned, drained, revived, pending>>

CtorPush == pc = "caller" /\ CallPush

CtorPop == pc = "caller" /\ CallPop

NextCtor == Construct \/ CtorPush \/ CtorPop

SpecCtor == InitCtor /\ [][NextCtor]_vars

(***************************************************************************)
(* The driver loop over a queue whose order among candidates of equal      *)
(* cost is left open: heap.pop() may give any queued candidate of minimal  *)
(* cost.  Everything else is the code of pop and main.                     *)
(***************************************************************************)

\* the queued candidates of minimal cost
MinCost(h) == {s \in BagToSet(h) : \A t \in BagToSet(h) : s.cost <= t.cost}

\* LinearDijkstra::pop with heap.pop() giving any element of MinCost: the set
\* of possible results.
RECURSIVE popTieLoop(_, _, _)
popTieLoop(d, h, ext) ==
    IF h = EmptyBag
    THEN {[ret |-> None, distances |-> d, heap |-> h, extracted |-> ext]}
    ELSE UNION {
             LET h1 == h (-) SetToBag({s})
                 e1 == Append(ext, s)
             IN  IF s.cost > d[s.position]
                 THEN popTieLoop(d, h1, e1)
                 ELSE LET v == visit(d, h1, s)
                      IN  {[ret |-> v.ret, distances |-> v.distances,
                            heap |-> v.heap, extracted |-> e1]}
             : s \in MinCost(h)}

popAnyTie(d, h) == popTieLoop(d, h, << >>)

\* main, lines 133-138, run to its end from solver state (d, h): the final
\* distance table of the code's own run.
RECURSIVE mainLoop(_, _, _)
mainLoop(sc, d, h) ==
    LET r == pop(d, h)
    IN  IF r.ret = None
        THEN r.distances
        ELSE LET q == push(r.distances, r.heap, ShortcutCandidate(sc, r.ret))
             IN  mainLoop(sc, q.distances, q.heap)

\* main, lines 132-138: the distance table main prints for shortcuts `sc`.
main(sc) == mainLoop(sc, new(DLen(sc)).distances, new(DLen(sc)).heap)

InitTie == InitN(MaxTieN)

TiePop ==
    /\ pc = "pop"
    /\ \E r \in popAnyTie(distances, heap) :
           /\ distances' = r.distances
           /\ heap' = r.heap
           /\ ret' = r.ret
           /\ extracted' = r.extracted
           /\ IF r.ret = None
              THEN pc' = "done" /\ returned' = returned /\ drained' = TRUE
              ELSE pc' = "push" /\ returned' = Append(returned, r.ret)
                   /\ drained' = drained
    /\ UNCHANGED <<size, panic, shortcuts, revived, pending>>

NextTie == TiePop \/ MainPush

SpecTie == InitTie /\ [][NextTie]_vars

(***************************************************************************)
(* The driver with deferred shortcut pushes: the push for a State returned *)
(* by pop may be made at any later point, pops going on in between; the    *)
(* run ends when pop returns None and no such push is outstanding.         *)
(***************************************************************************)

InitDefer == InitN(MaxDeferN)

\* a call of pop; the returned State's shortcut push becomes outstanding
DeferPop ==
    /\ pc = "pop"
    /\ LET r == pop(distances, heap)
       IN  /\ distances' = r.distances
           /\ heap' = r.heap
           /\ ret' = r.ret
           /\ extracted' = r.extracted
           /\ IF r.ret = None
              THEN /\ pending' = pending
                   /\ drained' = TRUE
                   /\ pc' = IF pending = EmptyBag THEN "done" ELSE "pop"
              ELSE /\ pending' = pending (+) SetToBag({r.ret})
                   /\ drained' = drained
                   /\ pc' = "pop"
    /\ UNCHANGED <<size, panic, shortcuts, returned, revived>>

\* the shortcut push (main, lines 134-137) for some State returned earlier
DeferPush ==
    /\ pc = "pop"
    /\ \E s \in BagToSet(pending) :
           /\ LET c == ShortcutCandidate(shortcuts, s)
                  r == push(distances, heap, c)
              IN  /\ distances' = r.distances
                  /\ heap' = r.heap
                  /\ revived' = (revived \/ (drained /\ c.cost < distances[c.position]))
           /\ pending' = pending (-) SetToBag({s})
    /\ UNCHANGED <<size, panic, shortcuts, pc, ret, extracted, returned, drained>>

NextDefer == DeferPop \/ DeferPush

SpecDefer == InitDefer /\ [][NextDefer]_vars

\* the caller keeps popping and makes every outstanding push at some point
FairSpecDefer == SpecDefer /\ WF_vars(DeferPop) /\ WF_vars(DeferPush)

(***************************************************************************)
(* Reference: shortest-path lengths from node 0 in the graph with the line *)
(* edges i <-> i+1 and the shortcut edges i -> sc[i], all of weight 1,     *)
(* computed by Bellman-Ford rounds, independently of the solver.           *)
(***************************************************************************)
Min2(a, b) == IF a <= b THEN a ELSE b

\* u -> v is an edge of the graph
Edge(sc, u, v) == v = u + 1 \/ u = v + 1 \/ sc[u] = v

\* one round: every node takes the best of its value and its in-neighbours' + 1
RelaxRound(sc, d) ==
    [v \in DOMAIN sc |->
        LET preds == {u \in DOMAIN sc : Edge(sc, u, v) /\ d[u] # UsizeMax}
            best  == IF preds = {} THEN UsizeMax
                     ELSE LET u == CHOOSE x \in preds : \A y \in preds : d[x] <= d[y]
                          IN  d[u] + 1
        IN  Min2(d[v], best)]

RECURSIVE RelaxRounds(_, _, _)
RelaxRounds(sc, d, k) ==
    IF k = 0 THEN d
    ELSE LET nd == RelaxRound(sc, d)
         IN  IF nd = d THEN d ELSE RelaxRounds(sc, nd, k - 1)

ShortestDistances(sc) ==
    RelaxRounds(sc, [i \in DOMAIN sc |-> IF i = 0 THEN 0 ELSE UsizeMax],
                Cardinality(DOMAIN sc))

\* C1: when the driver loop ends, distances[i] is the true shortest-path
\* length from node 0 to node i in the line-plus-shortcuts graph, for every i.
C1_FinalDistancesShortest ==
    pc = "done" => distances = ShortestDistances(shortcuts)

\* a finished run on at least 5 nodes in which a shortcut beat the line and
\* a backward line edge was needed (node 3 reached from node 4).
C1_Witness ==
    /\ pc = "done"
    /\ DLen(distances) >= 5
    /\ distances[4] = 1
    /\ distances[3] = 2
    /\ distances = ShortestDistances(shortcuts)

(***************************************************************************)
(* Extraction order.                                                       *)
(***************************************************************************)

\* the candidates still queued when the k-th candidate of `ext` was taken
QueuedAt(h, ext, k) == BagToSet(h) \ {ext[j] : j \in 1..(k - 1)}

\* C2 (as stated): pop extracts queued candidates in ascending cost order
\* and, among queued candidates of equal minimal cost, the one with the
\* smallest position first.
C2_AscendingPositionTies ==
    [][CallPop =>
         \A k \in 1..Len(extracted') :
             \A t \in QueuedAt(heap, extracted', k) :
                 /\ extracted'[k].cost <= t.cost
                 /\ (t.cost = extracted'[k].cost =>
                        extracted'[k].position <= t.position)]_vars

\* C2 (amended): pop extracts queued candidates in ascending cost order
\* and, among queued candidates of equal minimal cost, the one with the
\* LARGEST position first.
C2_DescendingPositionTies ==
    [][CallPop =>
         \A k \in 1..Len(extracted') :
             \A t \in QueuedAt(heap, extracted', k) :
                 /\ extracted'[k].cost <= t.cost
                 /\ (t.cost = extracted'[k].cost =>
                        extracted'[k].position >= t.position)]_vars

\* pop has just returned a candidate while a candidate of the same cost and
\* a smaller position, and one of a larger cost, are still queued.
C2_Witness ==
    /\ ret # None
    /\ Len(extracted) >= 1
    /\ \E t \in BagToSet(heap) : t.cost = ret.cost /\ t.position < ret.position
    /\ \E t \in BagToSet(heap) : t.cost > ret.cost

(***************************************************************************)
(* Drained.                                                                *)
(***************************************************************************)

C4_ReturnedIsFinal ==
    \A k \in 1..Len(returned) :
        distances[returned[k].position] = returned[k].cost

\* the run is over, five nodes were returned, and one of them was reached
\* through a shortcut (its distance is below its line distance).
C4_Witness ==
    /\ pc = "done"
    /\ Len(returned) >= 5
    /\ \E k \in 1..Len(returned) : returned[k].cost < returned[k].position

\* C5: under any sequence of push and pop calls with in-range candidates,
\* no distances[i] increases from one state to the next.
C5_Monotonic ==
    [][\A i \in DOMAIN distances : distances'[i] <= distances[i]]_vars

\* an entry went from usize::MAX below its line distance (a caller's push
\* was accepted) and pop has returned that very candidate.
C5_Witness ==
    /\ ret # None
    /\ ret.position > 0
    /\ ret.cost < ret.position
    /\ distances[ret.position] = ret.cost

\* C6: distances[0] = 0 in every reachable state, for every n >= 1 and
\* every sequence of push and pop calls with in-range candidates.
C6_StartIsZero == distances[0] = 0

\* pop has just returned node 1 (so it proposed cost + 1 for node 0), a
\* caller's push had been accepted before, and distances[0] is still 0.
C6_Witness ==
    /\ ret # None
    /\ ret.position = 1
    /\ ret.cost = 0
    /\ distances[0] = 0

\* C7: for every n >= 1 and every in-range shortcut mapping the driver loop
\* terminates: pop eventually returns nothing.
C7_DriverTerminates == <>(pc = "done" /\ ret = None)

\* a run over four nodes has ended after pop returned each of them, one
\* of them reached through a shortcut.
C7_Witness ==
    /\ pc = "done"
    /\ ret = None
    /\ DLen(distances) >= 4
    /\ Len(returned) >= DLen(distances)
    /\ \E i \in DOMAIN distances : distances[i] < i

\* C8: for given n and shortcuts, whichever candidate is extracted first
\* among queued candidates of equal minimal cost, the driver run ends with
\* the same distance table as the code's own run.
C8_TieOrderIrrelevant ==
    pc = "done" => distances = main(shortcuts)

\* a finished run that did not extract in the code's order: some returned
\* State is followed by one of the same cost and a larger position.
C8_Witness ==
    /\ pc = "done"
    /\ \E k \in 1..(Len(returned) - 1) :
           /\ returned[k].cost = returned[k + 1].cost
           /\ returned[k].position < returned[k + 1].position
    /\ \E i \in DOMAIN distances : distances[i] < i

\* C9: when the shortcut push of every returned State is made at some
\* later point, in any interleaving with the pops, and popping goes on
\* until pop returns nothing with no push outstanding, the run terminates
\* and whenever it has ended the table holds the true shortest distances.
C9_DeferredPushes ==
    /\ [](pc = "done" => distances = ShortestDistances(shortcuts))
    /\ <>(pc = "done")

\* the run has ended after a pop had returned nothing with pushes still
\* outstanding and one of those late pushes had improved the table.
C9_Witness ==
    /\ pc = "done"
    /\ pending = EmptyBag
    /\ revived
    /\ distances = ShortestDistances(shortcuts)

\* C10: when the driver loop ends, adjacent entries of the distance table
\* differ by at most 1.
C10_AdjacentWithinOne ==
    pc = "done" =>
        \A i \in DOMAIN distances :
            (i + 1) \in DOMAIN distances =>
                /\ distances[i] - distances[i + 1] <= 1
                /\ distances[i + 1] - distances[i] <= 1

\* a finished run where a node got its distance from its right neighbour.
C10_Witness ==
    /\ pc = "done"
    /\ \E i \in DOMAIN distances :
           /\ (i + 1) \in DOMAIN distances
           /\ distances[i] = distances[i + 1] + 1
           /\ distances[i] < i

\* C11: when the driver loop ends, distances[shortcuts[i]] <= distances[i] + 1
\* for every node i.
C11_ShortcutsRelaxed ==
    pc = "done" =>
        \A i \in DOMAIN distances : distances[shortcuts[i]] <= distances[i] + 1

\* a finished run in which a shortcut edge is tight and beats the line:
\* its target is further than one line step away and sits exactly one
\* above its source.
C11_Witness ==
    /\ pc = "done"
    /\ \E i \in DOMAIN distances :
           /\ shortcuts[i] > i + 1
           /\ distances[shortcuts[i]] = distances[i] + 1
           /\ distances[shortcuts[i]] < shortcuts[i]

\* C12 (as stated): constructing the solver with n = 0 fails with an
\* InvalidSize condition; no solver with an empty distance table is
\* produced and no queue entry is left behind.
C12_FailsInvalidSize ==
    (size = 0 /\ pc # "new") =>
        /\ pc = "panicked"
        /\ panic = "InvalidSize"
        /\ distances = << >>
        /\ heap = EmptyBag

\* C12 (amended): constructing the solver with n = 0 fails with an
\* index-out-of-bounds panic; no solver with an empty distance table is
\* produced and no queue entry is left behind.
C12_FailsOutOfBounds ==
    (size = 0 /\ pc # "new") =>
        /\ pc = "panicked"
        /\ panic = "index out of bounds"
        /\ distances = << >>
        /\ heap = EmptyBag

\* new(0) has been called and has panicked.
C12_Witness ==
    /\ size = 0
    /\ pc = "panicked"
    /\ panic # "none"

\* C13: when every shortcut points to its own node, the driver run ends
\* with distances[i] = i for every node i (for n = 1, the table [0]).
C13_SelfShortcutsGiveLine ==
    (pc = "done" /\ \A i \in DOMAIN shortcuts : shortcuts[i] = i) =>
        \A i \in DOMAIN distances : distances[i] = i

\* the finished run on five nodes with all shortcuts pointing to self.
C13_Witness ==
    /\ pc = "done"
    /\ DLen(distances) = 5
    /\ \A i \in DOMAIN shortcuts : shortcuts[i] = i
    /\ distances[4] = 4

\* the finished run on one node: the table is [0].
C13_WitnessOne ==
    /\ pc = "done"
    /\ DLen(distances) = 1
    /\ distances[0] = 0

(***************************************************************************)
(* Effects of push and pop.                                                *)
(***************************************************************************)

\* the States queued before or after a step
QueuedStates == BagToSet(heap) \cup BagToSet(heap')

\* C14: push(candidate) with candidate.cost < distances[candidate.position]
\* sets that entry to candidate.cost, adds exactly one copy of the
\* candidate to the queue and changes no other entry and no other queue
\* element; with candidate.cost >= distances[candidate.position] it changes
\* neither the table nor the queue.
C14_PushEffect ==
    [][\A c \in Costs, p \in DOMAIN distances :
           CallPushOf(c, p) =>
               IF c < distances[p]
               THEN /\ distances'[p] = c
                    /\ \A i \in DOMAIN distances : i # p => distances'[i] = distances[i]
                    /\ DOMAIN distances' = DOMAIN distances
                    /\ CopiesIn(State(c, p), heap') = CopiesIn(State(c, p), heap) + 1
                    /\ \A t \in QueuedStates :
                           t # State(c, p) => CopiesIn(t, heap') = CopiesIn(t, heap)
               ELSE /\ distances' = distances
                    /\ heap' = heap]_vars

\* a caller's candidate below the line distance of its node has been
\* accepted: it is queued and the table holds its cost, while the table
\* also holds an entry (node 0) that every push was rejected for.
C14_Witness ==
    \E t \in BagToSet(heap) :
        /\ t.position > 0
        /\ t.cost < t.position
        /\ distances[t.position] = t.cost
        /\ distances[0] = 0

\* the candidates the last pop() took from the queue and dropped: all it
\* extracted but the one it returned
Dropped(ext, r) == IF r = None THEN ext ELSE SubSeq(ext, 1, Len(ext) - 1)

\* C15: a candidate returned by pop has cost = distances[position] when it
\* is extracted; an extracted candidate with cost > distances[position] is
\* dropped: it is not returned, it is gone from the queue, and it causes no
\* change of the table and no push (the table changes only at the line
\* neighbours of the returned candidate, and only those are queued).
C15_StaleDropped ==
    [][CallPop =>
         LET dropped == Dropped(extracted', ret')
         IN  /\ ret' # None =>
                    /\ Len(extracted') >= 1
                    /\ ret' = extracted'[Len(extracted')]
                    /\ ret'.cost = distances[ret'.position]
             /\ \A k \in 1..Len(dropped) :
                    /\ dropped[k].cost > distances[dropped[k].position]
                    /\ dropped[k] # ret'
                    /\ ~BagIn(dropped[k], heap')
             /\ \A i \in DOMAIN distances :
                    distances'[i] # distances[i] =>
                        /\ ret' # None
                        /\ i = ret'.position + 1 \/ i = ret'.position - 1
                        /\ distances'[i] = ret'.cost + 1
             /\ \A t \in BagToSet(heap') :
                    \/ BagIn(t, heap)
                    \/ /\ ret' # None
                       /\ t.cost = ret'.cost + 1
                       /\ t.position = ret'.position + 1 \/ t.position = ret'.position - 1]_vars

\* the last pop() dropped a stale candidate and then returned a fresh one.
C15_Witness ==
    /\ ret # None
    /\ Len(extracted) >= 2
    /\ extracted[1].cost > distances[extracted[1].position]
    /\ ret.cost = distances[ret.position]

\* the last pop() dropped a stale candidate and returned nothing.
C15_WitnessOnlyStale ==
    /\ ret = None
    /\ Len(extracted) >= 1

\* C16: in a driver run, whenever pop has extracted a fresh candidate
\* (cost, position) and returned it, the queue holds no candidate for the
\* same position with a strictly smaller cost.
C16_NoCheaperQueued ==
    (pc = "push" /\ ret # None) =>
        \A t \in BagToSet(heap) : t.position = ret.position => t.cost >= ret.cost

\* pop has just returned a node reached through a shortcut while other
\* candidates are still queued.
C16_Witness ==
    /\ pc = "push"
    /\ ret # None
    /\ ret.cost < ret.position
    /\ ret.cost = distances[ret.position]
    /\ heap # EmptyBag

(***************************************************************************)
(* The sequence of States returned by pop in a driver run.                 *)
(***************************************************************************)

\* the positions returned so far
ReturnedPositions == {returned[k].position : k \in 1..Len(returned)}

\* C17: in a driver run over n nodes no position is returned twice, and
\* when pop returns nothing it has returned a candidate exactly n times,
\* once for each position in 0..n-1.
C17_EachNodeOnce ==
    /\ \A j, k \in 1..Len(returned) :
           j # k => returned[j].position # returned[k].position
    /\ pc = "done" =>
           /\ Len(returned) = DLen(distances)
           /\ ReturnedPositions = DOMAIN distances

\* a finished run over five nodes, one of them reached through a shortcut
\* that closes a second path to a node (two equal-cost paths to node 3).
C17_Witness ==
    /\ pc = "done"
    /\ Len(returned) = 5
    /\ DLen(distances) = 5
    /\ distances[4] = 1
    /\ distances[2] = 2
    /\ distances[3] = 2

\* C18: in a driver run the costs of successively returned candidates never
\* decrease and grow by at most one from one to the next.
C18_CostsStepUp ==
    \A k \in 1..(Len(returned) - 1) :
        /\ returned[k].cost <= returned[k + 1].cost
        /\ returned[k + 1].cost <= returned[k].cost + 1

\* a finished run whose returned costs both repeat and step up, one of the
\* returned nodes having been reached through a shortcut.
C18_Witness ==
    /\ pc = "done"
    /\ \E k \in 1..(Len(returned) - 1) : returned[k].cost = returned[k + 1].cost
    /\ \E k \in 1..(Len(returned) - 1) : returned[k + 1].cost = returned[k].cost + 1
    /\ \E k \in 1..Len(returned) : returned[k].cost < returned[k].position

\* C19: in a driver run every position is inserted into the queue at most
\* once (a queued position is queued once and has not been returned), so
\* the queue never holds two candidates for one position, and pop never
\* extracts a stale candidate (what it extracts is what it returns).
C19_OneInsertionPerNode ==
    /\ \A s, t \in BagToSet(heap) : s.position = t.position => s = t
    /\ \A s \in BagToSet(heap) : CopiesIn(s, heap) = 1
    /\ \A s \in BagToSet(heap) : s.position \notin ReturnedPositions
    /\ \A j, k \in 1..Len(returned) :
           j # k => returned[j].position # returned[k].position
    /\ extracted = IF ret = None THEN << >> ELSE <<ret>>

\* the driver has just pushed a shortcut candidate for a node that the
\* line would have reached later, and several nodes are queued.
C19_Witness ==
    /\ pc = "pop"
    /\ Len(returned) >= 2
    /\ \E s \in BagToSet(heap) : s.cost < s.position
    /\ \E s, t \in BagToSet(heap) : s.position # t.position

\* C20: after any sequence of push and pop calls with in-range candidates,
\* every queued candidate (cost, position) has cost >= distances[position]
\* and no candidate is queued twice.
C20_QueueAboveTable ==
    \A s \in BagToSet(heap) :
        /\ s.cost >= distances[s.position]
        /\ CopiesIn(s, heap) = 1

\* the queue holds a stale candidate and a fresh one for the same node.
C20_Witness ==
    \E s, t \in BagToSet(heap) :
        /\ s.position = t.position
        /\ s.cost > distances[s.position]
        /\ t.cost = distances[t.position]

====
